---- MODULE Spec2Model ----
(***************************************************************************)
(* Supervisor / worker model of three stress-ng jobs:                      *)
(*   stress_rmap   (src/stress-rmap.c)    16 forked workers, shared slots  *)
(*   stress_malloc (src/unnamed/part_000) one worker, restarted on SIGKILL *)
(*   stress_nice   (src/stress-nice.c)    one worker per loop pass         *)
(* One behaviour runs one job entry point in the supervisor process; the   *)
(* forked children, the signals that reach the processes and the outcomes  *)
(* of the system calls are the environment.                                *)
(***************************************************************************)
EXTENDS Integers, Sequences, FiniteSets

VARIABLES
    job,          \* which entry point runs: "rmap", "malloc" or "nice"
    max_ops,      \* argument max_ops (0 = unbounded)
    opt_do_run,   \* the supervisor's copy of the run-control flag
    pc,           \* the supervisor's position in the entry point
    ret,          \* the status the entry point returned / exited with
    counter,      \* *counter, the externally visible operation counter
    i,            \* the supervisor's loop index (rmap), spawn count (malloc, nice)
    pids,         \* rmap: pids[]; 0 = memset, -1 = fork failed, k+1 = child k
    child,        \* the forked processes: state, own run flag, way of death
    counters,     \* rmap: the shared slots counters[]
    sigs,         \* the signals the supervisor sent to each unreaped child, in order
    res,          \* OS resources of rmap held by the supervisor
    mappings,     \* rmap: mappings[]
    paddings,     \* rmap: paddings[]
    restarts,     \* malloc: restarts
    fork_fails,   \* malloc: consecutive failed fork() calls at `again`
    addr,         \* malloc child: occupied slots of addr[]
    live,         \* malloc child: live allocations on its heap
    op,           \* malloc child: what the latest pass of its loop did
    oom_kills     \* number of kills by the OOM killer so far

vars == <<job, max_ops, opt_do_run, pc, ret, counter, i, pids, child, counters,
          sigs, res, mappings, paddings, restarts, fork_fails, addr, live, op,
          oom_kills>>

(***************************************************************************)
(* Bounds of the model.  RMAP_CHILD_MAX is 16 and MAPPINGS_MAX is 64 in    *)
(* the source (src/stress-rmap.c:43-44); the model is parametric in both   *)
(* and is checked for small values.                                        *)
(***************************************************************************)
RMAP_CHILD_MAX == 2
MAPPINGS_MAX == 1
\* iterations a worker without a budget is followed for
SlotCap == 2
\* kills by the OOM killer in one run
MaxOomKills == 1
\* consecutive fork() failures with EAGAIN
MaxForkFails == 2
\* option --malloc-max: the size of the allocator child's table
opt_malloc_max == 1
\* 20 - RLIMIT_NICE: the last priority of the nice child's loop
max_prio == 0

\* The values of max_ops: unbounded, less than one operation per worker, one
\* operation per worker with and without a remainder.
MaxOpsValues == {0, 1, RMAP_CHILD_MAX, RMAP_CHILD_MAX + 1}
\* The externally visible counter is followed up to this value.
CounterCap == RMAP_CHILD_MAX + 2
\* fork() succeeds at most this often in the single-child jobs.
MaxSpawn == MaxOomKills + 1

Workers == 0 .. (RMAP_CHILD_MAX - 1)
Windows == 0 .. (MAPPINGS_MAX - 1)
Spawned == 0 .. (MaxSpawn - 1)

\* The children a job can have: rmap forks RMAP_CHILD_MAX workers, the other
\* two jobs fork one child at a time, again and again.
Children == IF job = "rmap" THEN Workers ELSE Spawned

NoChild == [st |-> "none", run |-> FALSE, term |-> "none", k |-> 0]

\* A reaped child of stress_rmap or stress_nice: nothing of it is left, the
\* supervisor ignores the status waitpid() stored.
Reaped == [st |-> "reaped", run |-> FALSE, term |-> "none", k |-> 0]

RECURSIVE SumSlots(_, _)
SumSlots(c, n) == IF n = 0 THEN 0 ELSE c[n - 1] + SumSlots(c, n - 1)

Alive(c) == c.st \in {"run", "cond"}

NoRes == [counters |-> FALSE, dir |-> FALSE, file |-> FALSE, fd |-> FALSE]

(***************************************************************************)
(* Helpers shared by the three entry points.                               *)
(***************************************************************************)

\* The condition every do-while of the three files ends with:
\*     while (opt_do_run && (!max_ops || *counter < max_ops))
KeepGoing(run, m, cnt) == run /\ (m = 0 \/ cnt < m)

\* stress_rmap passes max_ops / RMAP_CHILD_MAX to every worker.
ChildBudget == max_ops \div RMAP_CHILD_MAX

\* posix_fallocate() returns 0 or an error number (ENOSPC = 28); the code
\* tests for a negative value, which only a -1/errno style libc returns, so
\* an error number is taken for success.
FallocReturns == {0, -1, 28}

\* The child the supervisor is waiting for.
Cur == IF job = "rmap" THEN i ELSE i - 1

WaitPcs == {"rmap_wait1", "rmap_wait2", "m_wait1", "m_wait2", "n_wait"}

\* The supervisor sleeps in select() or in a waitpid() whose child still lives.
Blocked ==
    \/ pc = "rmap_blocked"
    \/ pc \in WaitPcs /\ Alive(child[Cur])

\* Where a blocking call that fails with EINTR leaves the supervisor.
Interrupted(p) ==
    CASE p = "rmap_blocked" -> "rmap_sum"
      [] p = "rmap_wait1"   -> "rmap_eintr"
      [] p = "rmap_wait2"   -> "rmap_next"
      [] p = "m_wait1"      -> "m_eintr"
      [] p = "m_wait2"      -> "m_done"
      [] p = "n_wait"       -> "n_eintr"
      [] OTHER              -> p

Running == pc \notin {"returned", "exited"}

Zombie(c, how) == [child[c] EXCEPT !.st = "zombie", !.term = how]

Init ==
    /\ job \in {"rmap", "malloc", "nice"}
    /\ max_ops \in MaxOpsValues
    /\ opt_do_run = TRUE
    /\ pc = CASE job = "rmap" -> "rmap_mmap"
              [] job = "malloc" -> "m_again"
              [] OTHER -> "n_fork"
    /\ ret = "none"
    /\ counter = 0
    /\ i = 0
    /\ pids = [w \in Workers |-> 0]
    /\ child = [c \in Children |-> NoChild]
    /\ counters = [w \in Workers |-> 0]
    /\ sigs = [c \in Children |-> <<>>]
    /\ res = NoRes
    /\ mappings = [w \in Windows |-> "NULL"]
    /\ paddings = [w \in Windows |-> "uninit"]
    /\ restarts = 0
    /\ fork_fails = 0
    /\ addr = [s \in 0 .. (opt_malloc_max - 1) |-> FALSE]
    /\ live = 0
    /\ op = "none"
    /\ oom_kills = 0

(***************************************************************************)
(* stress_rmap: the supervisor.                                            *)
(***************************************************************************)

\* counters = mmap(...); on MAP_FAILED the process exits.
RmapMmapCounters ==
    /\ job = "rmap" /\ pc = "rmap_mmap"
    /\ \E ok \in BOOLEAN :
         IF ok
         THEN /\ res' = [res EXCEPT !.counters = TRUE]
              /\ pc' = "rmap_mkdir"
              /\ ret' = ret
         ELSE /\ pc' = "exited"
              /\ ret' = "EXIT_FAILURE"
              /\ res' = res
    /\ UNCHANGED <<job, max_ops, opt_do_run, counter, i, pids, child, counters,
                   sigs, mappings, paddings, restarts, fork_fails, addr, live, op, oom_kills>>

\* rc = stress_temp_dir_mk(); if (rc < 0) return exit_status(-rc);
RmapTempDirMk ==
    /\ job = "rmap" /\ pc = "rmap_mkdir"
    /\ \E ok \in BOOLEAN :
         IF ok
         THEN /\ res' = [res EXCEPT !.dir = TRUE]
              /\ pc' = "rmap_open"
              /\ ret' = ret
         ELSE /\ pc' = "returned"
              /\ ret' = "exit_status"
              /\ res' = res
    /\ UNCHANGED <<job, max_ops, opt_do_run, counter, i, pids, child, counters,
                   sigs, mappings, paddings, restarts, fork_fails, addr, live, op, oom_kills>>

\* fd = open(filename, O_CREAT | O_RDWR, ...) and its failure path.
RmapOpen ==
    /\ job = "rmap" /\ pc = "rmap_open"
    /\ \E ok \in BOOLEAN :
         IF ok
         THEN /\ res' = [res EXCEPT !.file = TRUE, !.fd = TRUE]
              /\ pc' = "rmap_unlink"
              /\ ret' = ret
         ELSE /\ res' = [res EXCEPT !.file = FALSE, !.dir = FALSE,
                                    !.counters = FALSE]
              /\ pc' = "returned"
              /\ ret' = "exit_status"
    /\ UNCHANGED <<job, max_ops, opt_do_run, counter, i, pids, child, counters,
                   sigs, mappings, paddings, restarts, fork_fails, addr, live, op, oom_kills>>

\* (void)unlink(filename);
RmapUnlink ==
    /\ job = "rmap" /\ pc = "rmap_unlink"
    /\ res' = [res EXCEPT !.file = FALSE]
    /\ pc' = "rmap_falloc"
    /\ UNCHANGED <<job, max_ops, opt_do_run, ret, counter, i, pids, child,
                   counters, sigs, mappings, paddings, restarts, fork_fails,
                   addr, live, op, oom_kills>>

\* if (posix_fallocate(fd, 0, sz) < 0) { close; temp_dir_rm; munmap; return }
RmapFallocate ==
    /\ job = "rmap" /\ pc = "rmap_falloc"
    /\ \E r \in FallocReturns :
         IF r < 0
         THEN /\ res' = [res EXCEPT !.fd = FALSE, !.dir = FALSE,
                                    !.counters = FALSE]
              /\ pc' = "returned"
              /\ ret' = "EXIT_FAILURE"
         ELSE /\ res' = res
              /\ pc' = "rmap_map"
              /\ ret' = ret
    /\ i' = 0
    /\ UNCHANGED <<job, max_ops, opt_do_run, counter, pids, child, counters,
                   sigs, mappings, paddings, restarts, fork_fails, addr, live, op, oom_kills>>

\* One pass of the loop that maps window i and its guard page; neither
\* result is tested.
RmapMap ==
    /\ job = "rmap" /\ pc = "rmap_map"
    /\ \E m \in {"mapped", "MAP_FAILED"}, p \in {"mapped", "MAP_FAILED"} :
         /\ mappings' = [mappings EXCEPT ![i] = m]
         /\ paddings' = [paddings EXCEPT ![i] = p]
    /\ IF i + 1 < MAPPINGS_MAX
       THEN i' = i + 1 /\ pc' = pc
       ELSE i' = 0 /\ pc' = "rmap_fork"
    /\ UNCHANGED <<job, max_ops, opt_do_run, ret, counter, pids, child, counters,
                   sigs, res, restarts, fork_fails, addr, live, op, oom_kills>>

\* RmapFork going on to the next worker after a failed fork().
RmapForkContinue ==
    /\ job = "rmap" /\ pc = "rmap_fork"
    /\ \E r \in {"ok", "nohandler", "failed"} :
         /\ pids' = [pids EXCEPT ![i] = IF r = "failed" THEN -1 ELSE i + 1]
         /\ child' = IF r = "failed" THEN child
                     ELSE [child EXCEPT ![i] =
                    IF r = "ok"
                    THEN [st |-> "run", run |-> opt_do_run, term |-> "none", k |-> 0]
                    ELSE [st |-> "zombie", run |-> opt_do_run,
                          term |-> "EXIT_FAILURE", k |-> 0]]
         /\ i' = i + 1
         /\ pc' = IF i + 1 < RMAP_CHILD_MAX THEN pc ELSE "rmap_select"
    /\ UNCHANGED <<job, max_ops, opt_do_run, ret, counter, counters, sigs, res,
                   mappings, paddings, restarts, fork_fails, addr, live, op,
                   oom_kills>>

\* One pass of the spawn loop: pids[i] = fork().  In the child
\* stress_sighandler() may fail, and the child then exits at once.
RmapFork ==
    /\ job = "rmap" /\ pc = "rmap_fork"
    /\ \E r \in {"ok", "nohandler", "failed"} :
         IF r = "failed"
         THEN /\ pids' = [pids EXCEPT ![i] = -1]
              /\ pc' = "rmap_cleanup"
              /\ i' = 0
              /\ child' = child
         ELSE /\ pids' = [pids EXCEPT ![i] = i + 1]
              /\ child' = [child EXCEPT ![i] =
                    IF r = "ok"
                    THEN [st |-> "run", run |-> opt_do_run, term |-> "none", k |-> 0]
                    ELSE [st |-> "zombie", run |-> opt_do_run,
                          term |-> "EXIT_FAILURE", k |-> 0]]
              /\ i' = i + 1
              /\ pc' = IF i + 1 < RMAP_CHILD_MAX THEN pc ELSE "rmap_select"
    /\ UNCHANGED <<job, max_ops, opt_do_run, ret, counter, counters, sigs, res,
                   mappings, paddings, restarts, fork_fails, addr, live, op, oom_kills>>

\* The supervisor enters select(0, NULL, NULL, NULL, NULL) and sleeps.
RmapSelect ==
    /\ job = "rmap" /\ pc = "rmap_select"
    /\ pc' = "rmap_blocked"
    /\ UNCHANGED <<job, max_ops, opt_do_run, ret, counter, i, pids, child,
                   counters, sigs, res, mappings, paddings, restarts, fork_fails,
                   addr, live, op, oom_kills>>

\* RmapSum with the supervisor zeroing the slots it has added.
RmapSumReset ==
    /\ job = "rmap" /\ pc = "rmap_sum"
    /\ counter' = counter + SumSlots(counters, RMAP_CHILD_MAX)
    /\ counters' = [w \in Workers |-> 0]
    /\ IF KeepGoing(opt_do_run, max_ops, counter')
       THEN pc' = "rmap_select" /\ i' = RMAP_CHILD_MAX
       ELSE pc' = "rmap_cleanup" /\ i' = 0
    /\ UNCHANGED <<job, max_ops, opt_do_run, ret, pids, child, sigs,
                   res, mappings, paddings, restarts, fork_fails, addr, live, op,
                   oom_kills>>

\* After select() returned: *counter += counters[i] for every slot, then the
\* loop condition.
RmapSum ==
    /\ job = "rmap" /\ pc = "rmap_sum"
    /\ counter' = counter + SumSlots(counters, RMAP_CHILD_MAX)
    /\ IF KeepGoing(opt_do_run, max_ops, counter')
       THEN pc' = "rmap_select" /\ i' = RMAP_CHILD_MAX
       ELSE pc' = "rmap_cleanup" /\ i' = 0
    /\ UNCHANGED <<job, max_ops, opt_do_run, ret, pids, child, counters, sigs,
                   res, mappings, paddings, restarts, fork_fails, addr, live, op, oom_kills>>

\* cleanup: one pass of the kill loop up to the first waitpid().
RmapCleanup ==
    /\ job = "rmap" /\ pc = "rmap_cleanup" /\ i < RMAP_CHILD_MAX
    /\ IF pids[i] <= 0
       THEN /\ i' = i + 1
            /\ UNCHANGED <<pc, sigs>>
       ELSE /\ sigs' = [sigs EXCEPT ![i] = Append(@, "SIGKILL")]
            /\ pc' = "rmap_wait1"
            /\ i' = i
    /\ UNCHANGED <<job, max_ops, opt_do_run, ret, counter, pids, child, counters,
                   res, mappings, paddings, restarts, fork_fails, addr, live, op, oom_kills>>

\* waitpid(pids[i], &status, 0) returns the pid: the child is reaped.
RmapWaitpid ==
    /\ job = "rmap" /\ pc \in {"rmap_wait1", "rmap_wait2"}
    /\ child[i].st = "zombie"
    /\ child' = [child EXCEPT ![i] = Reaped]
    /\ sigs' = [sigs EXCEPT ![i] = <<>>]
    /\ pc' = "rmap_next"
    /\ UNCHANGED <<job, max_ops, opt_do_run, ret, counter, i, pids, counters,
                   res, mappings, paddings, restarts, fork_fails, addr, live, op,
                   oom_kills>>

\* RmapEintr with the SIGTERM left out and the wait not retried.
RmapEintrKillOnly ==
    /\ job = "rmap" /\ pc = "rmap_eintr"
    /\ sigs' = [sigs EXCEPT ![i] = Append(@, "SIGKILL")]
    /\ pc' = "rmap_next"
    /\ UNCHANGED <<job, max_ops, opt_do_run, ret, counter, i, pids, child,
                   counters, res, mappings, paddings, restarts, fork_fails, addr, live, op,
                   oom_kills>>

\* if (ret < 0) { kill(SIGTERM); kill(SIGKILL); (void)waitpid(...) }
RmapEintr ==
    /\ job = "rmap" /\ pc = "rmap_eintr"
    /\ sigs' = [sigs EXCEPT ![i] = @ \o <<"SIGTERM", "SIGKILL">>]
    /\ pc' = "rmap_wait2"
    /\ UNCHANGED <<job, max_ops, opt_do_run, ret, counter, i, pids, child,
                   counters, res, mappings, paddings, restarts, fork_fails, addr, live, op,
                   oom_kills>>

\* The i++ of the kill loop.
RmapNext ==
    /\ job = "rmap" /\ pc = "rmap_next"
    /\ i' = i + 1
    /\ pc' = "rmap_cleanup"
    /\ UNCHANGED <<job, max_ops, opt_do_run, ret, counter, pids, child, counters,
                   sigs, res, mappings, paddings, restarts, fork_fails, addr, live, op,
                   oom_kills>>

\* Unmap with the loop ending one window early.
UnmapButLast(m) ==
    [w \in Windows |-> IF m[w] # "MAP_FAILED" /\ w < MAPPINGS_MAX - 1
                       THEN "unmapped" ELSE m[w]]

Unmap(m) == [w \in Windows |-> IF m[w] # "MAP_FAILED" THEN "unmapped" ELSE m[w]]

\* munmap(counters); close(fd); stress_temp_dir_rm(); the munmap loop; return.
RmapTeardown ==
    /\ job = "rmap" /\ pc = "rmap_cleanup" /\ i = RMAP_CHILD_MAX
    /\ res' = [res EXCEPT !.counters = FALSE, !.fd = FALSE, !.dir = FALSE]
    /\ mappings' = Unmap(mappings)
    /\ paddings' = Unmap(paddings)
    /\ ret' = "EXIT_SUCCESS"
    /\ pc' = "returned"
    /\ UNCHANGED <<job, max_ops, opt_do_run, counter, i, pids, child, counters,
                   sigs, restarts, fork_fails, addr, live, op, oom_kills>>

(***************************************************************************)
(* Signals.  The handlers the harness installs for SIGINT and SIGALRM are  *)
(* not part of these files; by the specification they clear the process's  *)
(* run-control flag.  A forked child has its own copy of the flag.         *)
(***************************************************************************)

\* A signal is caught by the supervisor.  `clears` tells a stop signal (the
\* handler clears opt_do_run) from any other caught signal.  A blocking call
\* in progress fails with EINTR.
SupSignal ==
    /\ Running
    /\ \E clears \in BOOLEAN :
         /\ IF clears
            THEN opt_do_run \/ Blocked
            ELSE Blocked /\ (pc = "rmap_blocked" =>
                    counter + SumSlots(counters, RMAP_CHILD_MAX) <= CounterCap)
         /\ opt_do_run' = (opt_do_run /\ ~clears)
    /\ pc' = IF Blocked THEN Interrupted(pc) ELSE pc
    /\ UNCHANGED <<job, max_ops, ret, counter, i, pids, child, counters, sigs,
                   res, mappings, paddings, restarts, fork_fails, addr, live, op, oom_kills>>

\* A stop signal is caught by a child that inherited the harness's handler:
\* the child's copy of opt_do_run is cleared.
ChildStop(c) ==
    /\ job = "malloc" /\ Running
    /\ Alive(child[c]) /\ child[c].run
    /\ child' = [child EXCEPT ![c].run = FALSE]
    /\ UNCHANGED <<job, max_ops, opt_do_run, pc, ret, counter, i, pids, counters,
                   sigs, res, mappings, paddings, restarts, fork_fails, addr, live, op,
                   oom_kills>>

\* RmapHandler without the kill(getppid(), SIGALRM).
RmapHandlerSilent(c) ==
    /\ job = "rmap" /\ Running
    /\ Alive(child[c])
    /\ child' = [child EXCEPT ![c] = Zombie(c, "exit")]
    /\ UNCHANGED <<job, max_ops, opt_do_run, pc, ret, counter, i, pids, counters,
                   sigs, res, mappings, paddings, restarts, fork_fails, addr, live,
                   op, oom_kills>>

\* stress_rmap_handler(): a worker catches SIGALRM, sends SIGALRM to its
\* parent and exits.  The parent's handler clears its opt_do_run.
RmapHandler(c) ==
    /\ job = "rmap" /\ Running
    /\ Alive(child[c])
    /\ child' = [child EXCEPT ![c] = Zombie(c, "exit")]
    /\ opt_do_run' = FALSE
    /\ pc' = IF Blocked THEN Interrupted(pc) ELSE pc
    /\ UNCHANGED <<job, max_ops, ret, counter, i, pids, counters, sigs, res,
                   mappings, paddings, restarts, fork_fails, addr, live, op, oom_kills>>

\* A child dies of a signal the supervisor sent it.  SIGTERM is only ever
\* sent together with SIGKILL, which the kernel delivers first.
ChildDie(c) ==
    /\ Running
    /\ Alive(child[c])
    /\ sigs[c] # <<>>
    /\ child' = [child EXCEPT ![c] = Zombie(c, "SIGKILL")]
    /\ UNCHANGED <<job, max_ops, opt_do_run, pc, ret, counter, i, pids, counters,
                   sigs, res, mappings, paddings, restarts, fork_fails, addr, live, op,
                   oom_kills>>

\* The OOM killer kills a child with SIGKILL.
OomKill(c) ==
    /\ job = "malloc" /\ Running
    /\ Alive(child[c])
    /\ oom_kills < MaxOomKills
    /\ oom_kills' = oom_kills + 1
    /\ child' = [child EXCEPT ![c] = Zombie(c, "SIGKILL")]
    /\ UNCHANGED <<job, max_ops, opt_do_run, pc, ret, counter, i, pids, counters,
                   sigs, res, mappings, paddings, restarts, fork_fails, addr, live, op>>

\* The allocator child dies of another signal (a fault, a stray kill).
ChildCrash(c) ==
    /\ job = "malloc" /\ Running
    /\ Alive(child[c])
    /\ child' = [child EXCEPT ![c] = Zombie(c, "SIGSEGV")]
    /\ UNCHANGED <<job, max_ops, opt_do_run, pc, ret, counter, i, pids, counters,
                   sigs, res, mappings, paddings, restarts, fork_fails, addr, live, op,
                   oom_kills>>

(***************************************************************************)
(* stress_rmap_child: one iteration of the worker's do-while.              *)
(***************************************************************************)

\* The windows one iteration touches: strategy 0 and 1 sweep all of them, 2
\* touches MAPPINGS_MAX randomly chosen ones (the set J), 3 copies window
\* w + 1 into window w.  Every inner loop tests opt_do_run first.
Touched(s, J, run) ==
    IF ~run THEN {}
    ELSE IF s \in {0, 1} THEN Windows
    ELSE IF s = 2 THEN J
    ELSE IF MAPPINGS_MAX > 1 THEN Windows ELSE {}

\* The worker's slot after one iteration: (*counter)++.
Bump(n) == n + 1

RmapChildIter(c) ==
    /\ job = "rmap" /\ Running
    /\ child[c].st = "run"
    /\ counters[c] < SlotCap
    /\ \E s \in 0 .. 3, J \in (SUBSET Windows) \ {{}} :
         LET T == Touched(s, J, child[c].run)
             n == Bump(counters[c])
         IN  IF \E w \in T : mappings[w] = "MAP_FAILED"
             THEN \* memset/memcpy on MAP_FAILED
                  /\ child' = [child EXCEPT ![c] = Zombie(c, "SIGSEGV")]
                  /\ counters' = counters
             ELSE /\ counters' = [counters EXCEPT ![c] = n]
                  /\ child' = IF KeepGoing(child[c].run, ChildBudget, n)
                              THEN child
                              ELSE [child EXCEPT ![c] = Zombie(c, "exit")]
    /\ UNCHANGED <<job, max_ops, opt_do_run, pc, ret, counter, i, pids, sigs, res,
                   mappings, paddings, restarts, fork_fails, addr, live, op, oom_kills>>

(***************************************************************************)
(* stress_malloc: the supervisor.                                          *)
(***************************************************************************)

\* again: pid = fork();
MallocFork ==
    /\ job = "malloc" /\ pc = "m_again"
    /\ \E r \in {"ok", "EAGAIN", "ENOMEM"} :
         IF r = "ok"
         THEN /\ i < MaxSpawn
              /\ child' = [child EXCEPT ![i] =
                    [st |-> "run", run |-> opt_do_run, term |-> "none", k |-> 0]]
              /\ addr' = [s \in DOMAIN addr |-> FALSE]
              /\ live' = 0
              /\ op' = "none"
              /\ i' = i + 1
              /\ fork_fails' = 0
              /\ pc' = "m_wait1"
         ELSE IF opt_do_run /\ r = "EAGAIN"
         THEN /\ fork_fails < MaxForkFails
              /\ fork_fails' = fork_fails + 1
              /\ UNCHANGED <<child, addr, live, op, i, pc>>
         ELSE /\ pc' = "m_done"
              /\ UNCHANGED <<child, addr, live, op, i, fork_fails>>
    /\ UNCHANGED <<job, max_ops, opt_do_run, ret, counter, pids, counters, sigs,
                   res, mappings, paddings, restarts, oom_kills>>

\* MallocWaitpid restarting the child after a death by any signal.
MallocWaitpidAnySignal ==
    /\ job = "malloc" /\ pc \in {"m_wait1", "m_wait2"}
    /\ child[Cur].st = "zombie"
    /\ child' = [child EXCEPT ![Cur].st = "reaped"]
    /\ sigs' = [sigs EXCEPT ![Cur] = <<>>]
    /\ IF pc = "m_wait1" /\ child[Cur].term # "exit"
       THEN restarts' = restarts + 1 /\ pc' = "m_again"
       ELSE restarts' = restarts /\ pc' = "m_done"
    /\ UNCHANGED <<job, max_ops, opt_do_run, ret, counter, i, pids, counters,
                   res, mappings, paddings, fork_fails, addr, live, op, oom_kills>>

\* MallocWaitpid with a SIGKILLed child treated like any other dead child.
MallocWaitpidNoRestart ==
    /\ job = "malloc" /\ pc \in {"m_wait1", "m_wait2"}
    /\ child[Cur].st = "zombie"
    /\ child' = [child EXCEPT ![Cur].st = "reaped"]
    /\ sigs' = [sigs EXCEPT ![Cur] = <<>>]
    /\ pc' = "m_done"
    /\ UNCHANGED <<job, max_ops, opt_do_run, ret, counter, i, pids, counters,
                   res, mappings, paddings, restarts, fork_fails, addr, live, op, oom_kills>>

\* waitpid(pid, &status, 0) returns the pid; the first one inspects status.
MallocWaitpid ==
    /\ job = "malloc" /\ pc \in {"m_wait1", "m_wait2"}
    /\ child[Cur].st = "zombie"
    /\ child' = [child EXCEPT ![Cur].st = "reaped"]
    /\ sigs' = [sigs EXCEPT ![Cur] = <<>>]
    /\ IF pc = "m_wait1" /\ child[Cur].term = "SIGKILL"
       THEN restarts' = restarts + 1 /\ pc' = "m_again"
       ELSE restarts' = restarts /\ pc' = "m_done"
    /\ UNCHANGED <<job, max_ops, opt_do_run, ret, counter, i, pids, counters,
                   res, mappings, paddings, fork_fails, addr, live, op, oom_kills>>

\* if (ret < 0) { kill(SIGTERM); kill(SIGKILL); (void)waitpid(...) }
MallocEintr ==
    /\ job = "malloc" /\ pc = "m_eintr"
    /\ sigs' = [sigs EXCEPT ![Cur] = @ \o <<"SIGTERM", "SIGKILL">>]
    /\ pc' = "m_wait2"
    /\ UNCHANGED <<job, max_ops, opt_do_run, ret, counter, i, pids, child,
                   counters, res, mappings, paddings, restarts, fork_fails, addr, live, op,
                   oom_kills>>

\* return EXIT_SUCCESS;
MallocReturn ==
    /\ job = "malloc" /\ pc = "m_done"
    /\ ret' = "EXIT_SUCCESS"
    /\ pc' = "returned"
    /\ UNCHANGED <<job, max_ops, opt_do_run, counter, i, pids, child, counters,
                   sigs, res, mappings, paddings, restarts, fork_fails, addr, live, op,
                   oom_kills>>

(***************************************************************************)
(* stress_malloc: the child.                                               *)
(***************************************************************************)

Occupied(a) == {s \in DOMAIN a : a[s]}

FreeAll == [s \in DOMAIN addr |-> FALSE]

\* MallocPass with a failed realloc() counted as an operation.
MallocPassCountsFailure(a, s, act, ok) ==
    IF a[s]
    THEN IF act = 1
         THEN [addr |-> [a EXCEPT ![s] = FALSE], op |-> "free", inc |-> 1, dl |-> -1]
         ELSE IF ok
         THEN [addr |-> a, op |-> "realloc", inc |-> 1, dl |-> 0]
         ELSE [addr |-> a, op |-> "realloc_failed", inc |-> 1, dl |-> 0]
    ELSE IF act = 1
         THEN IF ok
              THEN [addr |-> [a EXCEPT ![s] = TRUE], op |-> "alloc", inc |-> 1, dl |-> 1]
              ELSE [addr |-> a, op |-> "alloc_failed", inc |-> 0, dl |-> 0]
         ELSE [addr |-> a, op |-> "nop", inc |-> 0, dl |-> 0]

\* MallocPass allocating into a slot whatever it holds.
MallocPassOverwrites(a, s, act, ok) ==
    IF act = 1
    THEN IF ok
         THEN [addr |-> [a EXCEPT ![s] = TRUE], op |-> "alloc", inc |-> 1, dl |-> 1]
         ELSE [addr |-> a, op |-> "alloc_failed", inc |-> 0, dl |-> 0]
    ELSE IF a[s]
         THEN IF ok
              THEN [addr |-> a, op |-> "realloc", inc |-> 1, dl |-> 0]
              ELSE [addr |-> a, op |-> "realloc_failed", inc |-> 0, dl |-> 0]
         ELSE [addr |-> a, op |-> "nop", inc |-> 0, dl |-> 0]

\* The if/else on addr[i] of one pass: slot s, action bit act, ok the
\* allocator's answer.  The result holds the table, what was done, the
\* increment of *counter and the change in the number of live allocations.
MallocPass(a, s, act, ok) ==
    IF a[s]
    THEN IF act = 1
         THEN [addr |-> [a EXCEPT ![s] = FALSE], op |-> "free", inc |-> 1, dl |-> -1]
         ELSE IF ok
         THEN [addr |-> a, op |-> "realloc", inc |-> 1, dl |-> 0]
         ELSE [addr |-> a, op |-> "realloc_failed", inc |-> 0, dl |-> 0]
    ELSE IF act = 1
         THEN IF ok
              THEN [addr |-> [a EXCEPT ![s] = TRUE], op |-> "alloc", inc |-> 1, dl |-> 1]
              ELSE [addr |-> a, op |-> "alloc_failed", inc |-> 0, dl |-> 0]
         ELSE [addr |-> a, op |-> "nop", inc |-> 0, dl |-> 0]

\* The body of the do-while, from the bail-out test to the end of the
\* if/else on addr[i].
MallocIter(c) ==
    /\ job = "malloc" /\ Running
    /\ child[c].st = "run"
    /\ IF ~child[c].run
       THEN \* goto abort: free every slot, leave
            /\ addr' = FreeAll
            /\ live' = live - (Cardinality(Occupied(addr)) - Cardinality(Occupied(addr')))
            /\ op' = "none"
            /\ child' = [child EXCEPT ![c] = Zombie(c, "exit")]
            /\ counter' = counter
       ELSE /\ counter < CounterCap
            /\ \E s \in DOMAIN addr, act \in 0 .. 1, ok \in BOOLEAN :
                 LET r == MallocPass(addr, s, act, ok)
                 IN  /\ addr' = r.addr
                     /\ live' = live + r.dl
                     /\ op' = r.op
                     /\ counter' = counter + r.inc
            /\ child' = [child EXCEPT ![c].st = "cond"]
    /\ UNCHANGED <<job, max_ops, opt_do_run, pc, ret, i, pids, counters, sigs,
                   res, mappings, paddings, restarts, fork_fails, oom_kills>>

\* while (opt_do_run && (!max_ops || *counter < max_ops)); then the free loop.
MallocCond(c) ==
    /\ job = "malloc" /\ Running
    /\ child[c].st = "cond"
    /\ op' = "none"
    /\ IF KeepGoing(child[c].run, max_ops, counter)
       THEN /\ child' = [child EXCEPT ![c].st = "run"]
            /\ addr' = addr
            /\ live' = live
       ELSE /\ child' = [child EXCEPT ![c] = Zombie(c, "exit")]
            /\ addr' = FreeAll
            /\ live' = live - (Cardinality(Occupied(addr)) - Cardinality(Occupied(addr')))
    /\ UNCHANGED <<job, max_ops, opt_do_run, pc, ret, counter, i, pids, counters,
                   sigs, res, mappings, paddings, restarts, fork_fails, oom_kills>>

(***************************************************************************)
(* stress_nice.                                                            *)
(***************************************************************************)

min_prio == -max_prio

\* pid = fork();  A failed fork falls through to the loop condition.
NiceFork ==
    /\ job = "nice" /\ pc = "n_fork"
    /\ \E ok \in BOOLEAN :
         IF ok
         THEN /\ i < MaxSpawn
              /\ child' = [child EXCEPT ![i] =
                    [st |-> "run", run |-> opt_do_run, term |-> "none",
                     k |-> min_prio]]
              /\ i' = i + 1
              /\ pc' = "n_wait"
         ELSE /\ pc' = "n_cond"
              /\ UNCHANGED <<child, i>>
    /\ UNCHANGED <<job, max_ops, opt_do_run, ret, counter, pids, counters, sigs,
                   res, mappings, paddings, restarts, fork_fails, addr, live, op, oom_kills>>

\* waitpid(pid, &status, 0) returns the pid.
NiceWaitpid ==
    /\ job = "nice" /\ pc = "n_wait"
    /\ child[Cur].st = "zombie"
    /\ child' = [child EXCEPT ![Cur] = Reaped]
    /\ sigs' = [sigs EXCEPT ![Cur] = <<>>]
    /\ pc' = "n_cond"
    /\ UNCHANGED <<job, max_ops, opt_do_run, ret, counter, i, pids, counters,
                   res, mappings, paddings, restarts, fork_fails, addr, live, op,
                   oom_kills>>

\* if (waitpid(...) < 0) { kill(SIGTERM); kill(SIGKILL); }
NiceEintr ==
    /\ job = "nice" /\ pc = "n_eintr"
    /\ sigs' = [sigs EXCEPT ![Cur] = @ \o <<"SIGTERM", "SIGKILL">>]
    /\ pc' = "n_cond"
    /\ UNCHANGED <<job, max_ops, opt_do_run, ret, counter, i, pids, child,
                   counters, res, mappings, paddings, restarts, fork_fails, addr, live, op,
                   oom_kills>>

\* while (opt_do_run && (!max_ops || *counter < max_ops)); return EXIT_SUCCESS;
NiceCond ==
    /\ job = "nice" /\ pc = "n_cond"
    /\ IF KeepGoing(opt_do_run, max_ops, counter)
       THEN pc' = "n_fork" /\ ret' = ret
       ELSE pc' = "returned" /\ ret' = "EXIT_SUCCESS"
    /\ UNCHANGED <<job, max_ops, opt_do_run, counter, i, pids, child, counters,
                   sigs, res, mappings, paddings, restarts, fork_fails, addr, live, op,
                   oom_kills>>

\* The child: one pass of the loop over the priorities, then _exit(0).
NiceChildStep(c) ==
    /\ job = "nice" /\ Running
    /\ child[c].st = "run"
    /\ \E ok \in BOOLEAN :
         counter' = IF ok /\ child[c].k <= max_prio THEN counter + 1 ELSE counter
    /\ child' = [child EXCEPT ![c] =
                    IF child[c].k < max_prio
                    THEN [@ EXCEPT !.k = @ + 1]
                    ELSE Zombie(c, "exit")]
    /\ UNCHANGED <<job, max_ops, opt_do_run, pc, ret, i, pids, counters, sigs,
                   res, mappings, paddings, restarts, fork_fails, addr, live, op, oom_kills>>

(***************************************************************************)
(* The specification.                                                      *)
(***************************************************************************)

SupervisorStep ==
    \/ RmapMmapCounters \/ RmapTempDirMk \/ RmapOpen \/ RmapUnlink
    \/ RmapFallocate \/ RmapMap \/ RmapFork \/ RmapSelect \/ RmapSum
    \/ RmapCleanup \/ RmapWaitpid \/ RmapEintr \/ RmapNext \/ RmapTeardown
    \/ MallocFork \/ MallocWaitpid \/ MallocEintr \/ MallocReturn
    \/ NiceFork \/ NiceWaitpid \/ NiceEintr \/ NiceCond

ChildStep(c) ==
    \/ RmapChildIter(c) \/ MallocIter(c) \/ MallocCond(c) \/ NiceChildStep(c)
    \/ ChildDie(c)

Environment(c) ==
    \/ ChildStop(c) \/ RmapHandler(c) \/ OomKill(c) \/ ChildCrash(c)

Next ==
    \/ SupervisorStep
    \/ SupSignal
    \/ \E c \in Children : ChildStep(c)
    \/ \E c \in Children : Environment(c)

Spec == Init /\ [][Next]_vars

\* The behaviours of Spec that run stress_malloc.
MallocInit == Init /\ job = "malloc"

MallocNext ==
    \/ MallocFork \/ MallocWaitpid \/ MallocEintr \/ MallocReturn
    \/ SupSignal
    \/ \E c \in Spawned : MallocIter(c) \/ MallocCond(c) \/ ChildDie(c)
    \/ \E c \in Spawned : ChildStop(c) \/ OomKill(c) \/ ChildCrash(c)

SpecMalloc == MallocInit /\ [][MallocNext]_vars

\* Every process that can take a step of its program eventually takes one.
\* The signals and the kills of the environment need not happen.
AnyChild == Workers \cup Spawned

FairSpec ==
    /\ Spec
    /\ WF_vars(SupervisorStep)
    /\ \A c \in AnyChild : WF_vars(c \in Children /\ ChildStep(c))

(***************************************************************************)
(* The claims.                                                             *)
(***************************************************************************)

Returned == pc = "returned"
Ended == pc \in {"returned", "exited"}

\* The number of workers of the running job.
JobWorkers == IF job = "rmap" THEN RMAP_CHILD_MAX ELSE 1

\* C1: for every max_ops > 0 the externally visible counter of stress_rmap
\* (W = RMAP_CHILD_MAX workers) and of stress_malloc (W = 1) is at most
\* max_ops + (W - 1) in every reachable state.
C1_CounterBound ==
    (job \in {"rmap", "malloc"} /\ max_ops > 0)
        => counter <= max_ops + (JobWorkers - 1)

\* Every worker of stress_rmap has reached the budget it was given.
WorkersAtBudget ==
    /\ ChildBudget > 0
    /\ \A c \in Workers : counters[c] >= ChildBudget

\* C2: for max_ops > 0, once the workers of stress_rmap have stopped at
\* their budgets the supervisor eventually leaves its wait loop and returns
\* when it is scheduled fairly, also when nothing ever clears its
\* run-control flag.
C2_RmapReturns ==
    (job = "rmap" /\ max_ops > 0 /\ WorkersAtBudget) ~> (Ended \/ ~opt_do_run)

\* C3: with max_ops = 0, once the supervisor's run-control flag has been
\* cleared, at whatever point of stress_rmap, the supervisor eventually
\* leaves the wait loop and returns.
C3_StopLeadsToReturn == (job = "rmap" /\ max_ops = 0 /\ ~opt_do_run) ~> Ended

\* C4: once the entry point has returned, no child it forked is still
\* running or still waiting to be reaped.
C4_NoChildLeft ==
    Returned => \A c \in Children : child[c].st \in {"none", "reaped"}

Strength(sig) == IF sig = "SIGKILL" THEN 2 ELSE 1

\* C5 as stated: the signals a child gets from the supervisor never start
\* with SIGKILL and never step down from a stronger to a weaker one.
C5_KillNeverFirst ==
    \A c \in Children :
        LET q == sigs[c]
        IN  /\ q # <<>> => Head(q) # "SIGKILL"
            /\ \A j \in 1 .. (Len(q) - 1) : Strength(q[j]) <= Strength(q[j + 1])

\* C5 as amended: in stress_rmap the first signal a child gets is the SIGKILL
\* of the cleanup loop, followed by a wait; in stress_rmap and stress_malloc
\* SIGTERM is sent only after a waitpid() for that child failed, SIGKILL
\* follows it at once and the wait is retried.
C5_Escalation ==
    [][ /\ pc' \in {"rmap_eintr", "m_eintr"} /\ pc' # pc
            => pc \in {"rmap_wait1", "m_wait1"} /\ Blocked
        /\ \A c \in Children :
             (job # "nice" /\ sigs'[c] # sigs[c] /\ sigs'[c] # <<>>) =>
                \/ /\ pc = "rmap_cleanup" /\ c = i
                   /\ sigs[c] = <<>> /\ sigs'[c] = <<"SIGKILL">>
                   /\ pc' = "rmap_wait1"
                \/ /\ pc \in {"rmap_eintr", "m_eintr"} /\ c = Cur
                   /\ sigs'[c] = sigs[c] \o <<"SIGTERM", "SIGKILL">>
                   /\ pc' = IF job = "rmap" THEN "rmap_wait2" ELSE "m_wait2"
      ]_vars

\* A worker of stress_rmap was sent SIGKILL, then SIGTERM and SIGKILL.
C5_Witness ==
    \E c \in Children : sigs[c] = <<"SIGKILL", "SIGTERM", "SIGKILL">>

\* C6: after an OOM-killed child was reaped, stress_malloc forks no child
\* while the supervisor's run-control flag is cleared.
C6_RestartGated ==
    [][ (job = "malloc" /\ restarts > 0 /\ ~opt_do_run) => i' = i ]_vars

\* The job was stopped through the run-control flag or reached its budget.
StoppedOrDone ==
    \/ ~opt_do_run
    \/ \E c \in Children : child[c].st # "none" /\ ~child[c].run
    \/ max_ops > 0 /\ counter >= max_ops

\* C7 as stated: a stress_malloc run in which a child was OOM-killed has
\* forked a replacement, returns success, and returns only with the budget
\* reached or the run stopped by the run-control flag.
C7_RestartThenFinish ==
    (job = "malloc" /\ Returned /\ restarts > 0)
        => /\ i > restarts
           /\ ret = "EXIT_SUCCESS"
           /\ StoppedOrDone

\* C7 as amended: reaping a SIGKILLed child takes the supervisor straight
\* back to fork() with restarts incremented; the status is never a failure;
\* a child leaves on its own only with its flag cleared or the budget
\* reached; and a run with restarts returns with the budget reached or the
\* run stopped unless the replacement fork failed, the wait was interrupted
\* or the last child died of a signal.
C7_RestartPolicy ==
    /\ [](job = "malloc" => ret \in {"none", "EXIT_SUCCESS"})
    /\ []((job = "malloc" /\ Returned /\ restarts > 0) =>
             \/ i = restarts
             \/ child[i - 1].st # "reaped"
             \/ child[i - 1].term # "exit"
             \/ StoppedOrDone)
    /\ [][ /\ (job = "malloc" /\ pc = "m_wait1" /\ child[Cur].st = "zombie"
                 /\ child[Cur].term = "SIGKILL" /\ child'[Cur].st = "reaped")
              => (pc' = "m_again" /\ restarts' = restarts + 1)
           /\ \A c \in Children :
                (job = "malloc" /\ Alive(child[c]) /\ child'[c].st = "zombie"
                   /\ child'[c].term = "exit")
                => (~child[c].run \/ (max_ops > 0 /\ counter' >= max_ops))
         ]_vars

\* A child was OOM-killed, a replacement ran and the budget was reached.
C7_Witness ==
    /\ job = "malloc" /\ Returned /\ restarts > 0
    /\ child[i - 1].st = "reaped" /\ child[i - 1].term = "exit"
    /\ max_ops > 0 /\ counter >= max_ops

\* C8: when a window or guard mapping of stress_rmap failed, no worker is
\* forked, no worker faults on the failed window, and the job does not end
\* with success.
C8_FailureIsFatal ==
    (job = "rmap" /\ \E w \in Windows :
                        mappings[w] = "MAP_FAILED" \/ paddings[w] = "MAP_FAILED")
        => /\ \A c \in Children : child[c].st = "none"
           /\ ret # "EXIT_SUCCESS"

\* C9: when stress_rmap returns a failure status, the counter region, the
\* directory, the file and the descriptor acquired before have been released.
C9_ReleasedOnFailure ==
    (job = "rmap" /\ Returned /\ ret # "EXIT_SUCCESS") => res = NoRes

\* C10: when stress_rmap has returned, by whatever path, the backing file
\* and the directory do not exist, the descriptor is closed and no window
\* or guard mapping is left in the supervisor.
C10_NothingLeft ==
    (job = "rmap" /\ Returned)
        => /\ ~res.file /\ ~res.dir /\ ~res.fd
           /\ \A w \in Windows : mappings[w] # "mapped" /\ paddings[w] # "mapped"

\* stress_rmap returned after its workers ran and its windows were unmapped.
C10_Witness ==
    /\ job = "rmap" /\ Returned /\ ret = "EXIT_SUCCESS"
    /\ \E w \in Windows : mappings[w] = "unmapped" /\ paddings[w] = "unmapped"
    /\ \E c \in Children : child[c].st = "reaped"

\* The budget leaves a remainder: every worker gets at least one operation
\* and the budgets of the workers add up to less than max_ops.
BudgetWithRemainder ==
    /\ job = "rmap"
    /\ ChildBudget > 0
    /\ max_ops % RMAP_CHILD_MAX # 0

\* C11: a stress_rmap run whose budget is at least one operation per worker
\* and not a multiple of the number of workers (1000 for 16), and whose
\* run-control flag stays set, returns once its workers have done their
\* budgets, with the counter in
\* max_ops .. max_ops + (RMAP_CHILD_MAX - 1).
C11_BudgetRun ==
    (BudgetWithRemainder /\ WorkersAtBudget /\ opt_do_run)
        ~> \/ Returned /\ counter \in max_ops .. (max_ops + RMAP_CHILD_MAX - 1)
           \/ ~opt_do_run

\* C12: in stress_malloc a fork() that fails with EAGAIN is retried once:
\* the supervisor never goes back to `again` for a second failure in a row.
C12_RetryOnce == job = "malloc" => fork_fails <= 1

\* C13: the allocator child holds exactly one live allocation per occupied
\* slot of addr[] all through its loop, and when it has left the loop, by
\* the loop condition or by the bail-out, nothing it allocated is left.
C13_SlotsFreed ==
    job = "malloc" =>
        /\ live = Cardinality(Occupied(addr))
        /\ \A c \in Children :
             (child[c].st \in {"zombie", "reaped"} /\ child[c].term = "exit")
                => (live = 0 /\ Occupied(addr) = {})

\* A child allocated, reached the budget with its flag set, and left clean.
C13_Witness ==
    /\ job = "malloc" /\ max_ops = 1 /\ counter = 1
    /\ child[0].st = "zombie" /\ child[0].term = "exit" /\ child[0].run
    /\ live = 0

\* C14: a slot of counters[] changes only by worker w, running, adding one
\* to its own slot w; the supervisor takes no part in the step, no other
\* slot changes with it, and so no slot ever decreases.
C14_SlotOwnership ==
    [][ job = "rmap" =>
          \A w \in Workers :
             counters'[w] # counters[w] =>
                /\ child[w].st = "run"
                /\ counters'[w] = counters[w] + 1
                /\ pc' = pc /\ counter' = counter
                /\ \A v \in Workers \ {w} : counters'[v] = counters[v]
      ]_vars

\* The supervisor has summed slots that two workers wrote.
C14_Witness ==
    /\ job = "rmap" /\ counter > 0
    /\ \A w \in Workers : counters[w] > 0
    /\ \E w \in Workers : counters[w] > 1

\* C15: when the child reaped by stress_malloc died of a signal other than
\* SIGKILL, the supervisor forks no replacement, counts no restart and
\* returns EXIT_SUCCESS.
C15_NoRestartOnOtherSignal ==
    /\ [][ (job = "malloc" /\ pc \in {"m_wait1", "m_wait2"}
              /\ child[Cur].term = "SIGSEGV" /\ child'[Cur].st = "reaped")
           => (pc' = "m_done" /\ restarts' = restarts /\ i' = i) ]_vars
    /\ [][ (job = "malloc" /\ i > 0 /\ child[i - 1].term = "SIGSEGV")
           => (i' = i /\ restarts' = restarts /\ pc' # "m_again") ]_vars
    /\ []((job = "malloc" /\ Returned) => ret = "EXIT_SUCCESS")

\* The only child died of SIGSEGV, was reaped, and the job returned.
C15_Witness ==
    /\ job = "malloc" /\ Returned /\ i = 1 /\ restarts = 0
    /\ child[0].st = "reaped" /\ child[0].term = "SIGSEGV"

\* C16: when a pass of the aggregation loop of stress_rmap ends, the
\* externally visible counter equals the sum of the slots.
C16_CounterIsSum ==
    [][ (job = "rmap" /\ pc = "rmap_sum" /\ pc' # pc)
           => counter' = SumSlots(counters', RMAP_CHILD_MAX) ]_vars

\* C17: for max_ops > 0 no slot exceeds max_ops / RMAP_CHILD_MAX and the
\* slots add up to at most max_ops.
C17_SlotBudget ==
    (job = "rmap" /\ max_ops > 0)
        => /\ \A w \in Workers : counters[w] <= ChildBudget
           /\ SumSlots(counters, RMAP_CHILD_MAX) <= max_ops

\* Worker c left through stress_rmap_handler(): it exited with status 0
\* although its loop condition still holds.
HandlerExit(c) ==
    /\ child[c].st = "zombie" /\ child[c].term = "exit"
    /\ KeepGoing(child[c].run, ChildBudget, counters[c])

Successes == {"free", "realloc", "alloc"}
Failures == {"nop", "alloc_failed", "realloc_failed"}

\* C18: a worker of stress_rmap that catches its termination signal has
\* signalled the supervisor when it exits and increments nothing in that
\* step or after it; a supervisor blocked in select() is woken by it, and a
\* woken supervisor whose flag is cleared tears down and returns.
C18_HandlerStops ==
    /\ [](job = "rmap" => \A c \in Workers : HandlerExit(c) => ~opt_do_run)
    /\ [][ job = "rmap" =>
              \A c \in Workers :
                 /\ (~HandlerExit(c) /\ HandlerExit(c)')
                       => /\ counters' = counters
                          /\ pc = "rmap_blocked" => pc' = "rmap_sum"
                 /\ child[c].st # "run" => counters'[c] = counters[c]
          ]_vars
    /\ (job = "rmap" /\ pc = "rmap_sum" /\ ~opt_do_run) ~> Returned

\* A worker left through the handler and the supervisor was woken by it.
C18_Witness ==
    /\ job = "rmap" /\ pc = "rmap_sum" /\ ~opt_do_run
    /\ \E c \in Workers : HandlerExit(c) /\ counters[c] > 0

\* C19: a pass of the allocator child's loop adds exactly one to the counter
\* when it freed, resized or allocated, and nothing when it did nothing or
\* the allocator failed; a failed resize leaves the slot as it was; and
\* nothing else changes the counter of stress_malloc.
C19_CounterPerPass ==
    [][ job = "malloc" =>
          /\ \A c \in Children :
                (child[c].st = "run" /\ child'[c].st = "cond") =>
                   /\ op' \in Successes \cup Failures
                   /\ op' \in Successes => counter' = counter + 1
                   /\ op' \in Failures => counter' = counter
                   /\ op' \in {"realloc", "realloc_failed", "nop", "alloc_failed"}
                         => (addr' = addr /\ live' = live)
                   /\ op' = "free" => (live' = live - 1
                         /\ \E s \in DOMAIN addr : addr[s] /\ ~addr'[s])
                   /\ op' = "alloc" => (live' = live + 1
                         /\ \E s \in DOMAIN addr : ~addr[s] /\ addr'[s])
          /\ counter' # counter =>
                \E c \in Children : child[c].st = "run" /\ child'[c].st = "cond"
      ]_vars

\* An allocation was counted and the failed resize after it was not.
C19_Witness ==
    /\ job = "malloc" /\ op = "realloc_failed"
    /\ counter = 1 /\ live = 1

ForkFailed == job = "rmap" /\ \E k \in Workers : pids[k] = -1

\* C20: after fork() failed for worker k of stress_rmap no later worker is
\* forked, the wait loop is never entered, and the counter region, the
\* descriptor and the directory are released only at the return, when every
\* worker forked before k has been sent SIGKILL and waited for (reaped, or
\* waited for a second time after SIGTERM and SIGKILL).
C20_ForkFailure ==
    ForkFailed =>
        /\ \A k, j \in Workers :
              (pids[k] = -1 /\ j > k) => (pids[j] = 0 /\ child[j].st = "none")
        /\ pc \notin {"rmap_fork", "rmap_select", "rmap_blocked", "rmap_sum"}
        /\ counter = 0
        /\ ~Returned => (res.counters /\ res.fd /\ res.dir)
        /\ Returned =>
              /\ ~res.counters /\ ~res.fd /\ ~res.dir
              /\ \A j \in Workers :
                    pids[j] > 0 =>
                       \/ child[j].st = "reaped"
                       \/ sigs[j] = <<"SIGKILL", "SIGTERM", "SIGKILL">>

\* The fork of the last worker failed; the one before it was killed and
\* reaped before the return.
C20_Witness ==
    /\ job = "rmap" /\ Returned
    /\ pids[RMAP_CHILD_MAX - 1] = -1
    /\ child[0].st = "reaped"

====
